---- MODULE Spec2Model ----
(***************************************************************************)
(* District statistics pipeline (aggregate_and_display.py): three          *)
(* collectors, the aggregator, the snapshot file and the widget step.      *)
(* A backend is modelled by the responses it gives; every function of the  *)
(* module is an operator over those responses, and one action per          *)
(* function applies it on behalf of a caller.                              *)
(***************************************************************************)
EXTENDS Integers, Sequences, FiniteSets, TLC

\* ------------------------------------------------------------------ bounds
MaxPages == 3
MaxItems == 1
MaxCount == 1
MaxRuns == 2

\* --------------------------------------------------------- python values
\* Python's None where the model keeps it next to strings.
None == "<None>"
\* page_token = None: no continuation token (a positive token names a page).
NoToken == 0
\* r.status_code == 200
HTTP_OK == 200
\* if diff > 10
Tolerance == 10

SeqsUpTo(S, n) == UNION {[1..k -> S] : k \in 0..n}

\* str(e) of the exceptions the calls can raise.
NetErrors == {"ConnectionError", "Timeout"}
JSONDecodeError == "JSONDecodeError"
AttributeError == "AttributeError"

\* response.json(): raises on a body that is no JSON; a later .get raises on
\* a JSON value that is no object.
json(response) ==
  IF response.kind = "notjson" THEN [exc |-> JSONDecodeError]
  ELSE IF response.kind = "notdict" THEN [exc |-> AttributeError]
  ELSE [exc |-> ""]

\* ============================================================ Directory
\* A user carries 'suspended': True, False, or no such key.
UserKinds == {"suspended", "active", "nokey"}
\* A device carries 'status': 'ACTIVE', another status, or no such key.
DeviceKinds == {"ACTIVE", "DEPROVISIONED", "nokey"}

\* One page of a listing: the call raises, or returns its items.
PagesOf(Kinds) ==
  {[raises |-> TRUE, items |-> <<>>]} \cup
  {[raises |-> FALSE, items |-> s] : s \in SeqsUpTo(Kinds, MaxItems)}

\* A listing held by the service: pages 1..n, page i < n carrying the
\* continuation token i+1, page n carrying none.
ListingsOf(Kinds) == UNION {[1..n -> PagesOf(Kinds)] : n \in 1..MaxPages}

\* service.users().list(**params).execute(): the page the token names, the
\* first page when params has no pageToken.
execute(listing, pageToken) ==
  LET i == IF pageToken = NoToken THEN 1 ELSE pageToken
  IN [raises |-> listing[i].raises,
      items  |-> listing[i].items,
      nextPageToken |-> IF i < Len(listing) THEN i + 1 ELSE NoToken]

RECURSIVE list_loop(_, _, _, _)
list_loop_stop_early(listing, page_token, all, requests) ==
  LET results == execute(listing, page_token)
      sent == Append(requests, page_token)
  IN IF results.raises
     THEN [raised |-> TRUE, all |-> all, requests |-> sent]
     ELSE [raised |-> FALSE, all |-> all \o results.items, requests |-> sent]

\* The while True loop of count_users and count_chromebooks.
list_loop(listing, page_token, all, requests) ==
  LET results == execute(listing, page_token)
      sent == Append(requests, page_token)
  IN IF results.raises
     THEN [raised |-> TRUE, all |-> all, requests |-> sent]
     ELSE LET all2 == all \o results.items
              next == results.nextPageToken
          IN IF next = NoToken
             THEN [raised |-> FALSE, all |-> all2, requests |-> sent]
             ELSE list_loop(listing, next, all2, sent)

count_users(listing) ==
  LET r == list_loop(listing, NoToken, <<>>, <<>>)
  IN [raised |-> r.raised,
      count |-> IF r.raised THEN 0
                ELSE Cardinality({i \in DOMAIN r.all : r.all[i] /= "suspended"}),
      requests |-> r.requests]

count_chromebooks(listing) ==
  LET r == list_loop(listing, NoToken, <<>>, <<>>)
  IN [raised |-> r.raised,
      count |-> IF r.raised THEN 0
                ELSE Cardinality({i \in DOMAIN r.all : r.all[i] = "ACTIVE"}),
      requests |-> r.requests]

\* The three organisational scopes as the collector sees them.
ScopeListings(Kinds) ==
  {l \in ListingsOf(Kinds) :
     /\ Len(l) <= 2
     /\ \A i \in DOMAIN l :
          /\ Len(l[i].items) <= 1
          /\ \A k \in DOMAIN l[i].items : l[i].items[k] /= "nokey"}

GoogleEnvs ==
  [auth : {"", "FileNotFoundError"},
   staff : ScopeListings(UserKinds),
   students : ScopeListings(UserKinds),
   chromebooks : ScopeListings(DeviceKinds)]

collect_google_data(env) ==
  IF env.auth /= ""
  THEN [staff |-> 0, students |-> 0, chromebooks |-> 0, error |-> env.auth]
  ELSE LET staff == count_users(env.staff)
           students == count_users(env.students)
           chromebooks == count_chromebooks(env.chromebooks)
       IN IF staff.raised \/ students.raised \/ chromebooks.raised
          THEN [staff |-> 0, students |-> 0, chromebooks |-> 0, error |-> "HttpError"]
          ELSE [staff |-> staff.count, students |-> students.count,
                chromebooks |-> chromebooks.count, error |-> None]

\* ==================================================== Device management
\* The reply to a token exchange: the call raises (exc), or a body that is
\* no JSON, JSON but no object, or an object with or without access_token.
TokenResponses ==
  {[exc |-> e, kind |-> "notjson", access_token |-> None] : e \in NetErrors} \cup
  {[exc |-> "", kind |-> k, access_token |-> None] : k \in {"notjson", "notdict"}} \cup
  {[exc |-> "", kind |-> "dict", access_token |-> t] : t \in {None, "", "tok"}}

\* The reply to a listing call: has = the object carries the list's key.
JamfListResponses ==
  {[exc |-> e, kind |-> "notjson", has |-> FALSE, list |-> <<>>] : e \in NetErrors} \cup
  {[exc |-> "", kind |-> k, has |-> FALSE, list |-> <<>>] : k \in {"notjson", "notdict", "dict"}} \cup
  {[exc |-> "", kind |-> "dict", has |-> TRUE, list |-> [i \in 1..n |-> i]] : n \in 0..MaxCount}

JamfEnvs == [token : TokenResponses, computers : JamfListResponses, mobiles : JamfListResponses]

\* len(response.json().get(key, [])) with the exception it may raise.
jamf_len(response) ==
  IF response.exc /= "" THEN [exc |-> response.exc, n |-> 0]
  ELSE IF json(response).exc /= "" THEN [exc |-> json(response).exc, n |-> 0]
  ELSE [exc |-> "", n |-> IF response.has THEN Len(response.list) ELSE 0]

collect_jamf_data(env) ==
  LET failed(e) == [macs |-> 0, ipads |-> 0, error |-> e]
      mac == jamf_len(env.computers)
      ipad == jamf_len(env.mobiles)
  IN IF env.token.exc /= "" THEN failed(env.token.exc)
     ELSE IF json(env.token).exc /= "" THEN failed(json(env.token).exc)
     ELSE IF env.token.access_token \in {None, ""} THEN failed("No token")
     ELSE IF mac.exc /= "" THEN failed(mac.exc)
     ELSE IF ipad.exc /= "" THEN failed(ipad.exc)
     ELSE [macs |-> mac.n, ipads |-> ipad.n, error |-> None]

\* ==================================================== Student information
\* pagingInfo.totalCount as the source reports it: any integer.
ReportedCounts == (-1)..MaxCount

\* The reply to a counting query: paging = the object carries pagingInfo,
\* total = it carries totalCount.
CountResponses ==
  {[exc |-> e, status |-> 0, kind |-> "notjson", paging |-> FALSE, total |-> FALSE, totalCount |-> 0]
     : e \in NetErrors} \cup
  {[exc |-> "", status |-> s, kind |-> k, paging |-> FALSE, total |-> FALSE, totalCount |-> 0]
     : s \in {HTTP_OK}, k \in {"notjson", "dict"}} \cup
  {[exc |-> "", status |-> 404, kind |-> "dict", paging |-> FALSE, total |-> FALSE, totalCount |-> 0]} \cup
  {[exc |-> "", status |-> HTTP_OK, kind |-> "dict", paging |-> TRUE, total |-> FALSE, totalCount |-> 0]} \cup
  {[exc |-> "", status |-> HTTP_OK, kind |-> "dict", paging |-> TRUE, total |-> TRUE, totalCount |-> n]
     : n \in ReportedCounts}

\* What the source answers to a request whose bearer token it did not issue.
Unauthorized ==
  [exc |-> "", status |-> 401, kind |-> "dict", paging |-> FALSE, total |-> FALSE, totalCount |-> 0]

Endpoints == <<"staff", "employees", "personnel">>

EschoolEnvs ==
  [token : TokenResponses, students : CountResponses,
   staff : CountResponses, employees : CountResponses, personnel : CountResponses]

\* requests.get with the headers built from token: the source answers the
\* resource's reply to a token it issued and Unauthorized to any other.
eschool_get(env, resource, token) ==
  IF env[resource].exc /= "" THEN env[resource]
  ELSE IF token = "tok" THEN env[resource]
  ELSE Unauthorized

\* response.json().get('pagingInfo', {}).get('totalCount', 0)
total_count(response) ==
  IF json(response).exc /= "" THEN [exc |-> json(response).exc, n |-> 0]
  ELSE [exc |-> "", n |-> IF response.paging /\ response.total THEN response.totalCount ELSE 0]

RECURSIVE staff_probe(_, _, _, _, _)
staff_probe_no_break(env, token, i, staff_count, probed) ==
  IF i > Len(Endpoints) THEN [staff_count |-> staff_count, probed |-> probed]
  ELSE LET r == eschool_get(env, Endpoints[i], token)
           seen == Append(probed, Endpoints[i])
       IN IF r.exc /= "" THEN staff_probe(env, token, i + 1, staff_count, seen)
          ELSE IF r.status = HTTP_OK
          THEN IF total_count(r).exc /= ""
               THEN staff_probe(env, token, i + 1, staff_count, seen)
               ELSE staff_probe(env, token, i + 1, total_count(r).n, seen)
          ELSE staff_probe(env, token, i + 1, staff_count, seen)

\* The for loop over the candidate endpoints, from candidate i on.
staff_probe(env, token, i, staff_count, probed) ==
  IF i > Len(Endpoints) THEN [staff_count |-> staff_count, probed |-> probed]
  ELSE LET r == eschool_get(env, Endpoints[i], token)
           seen == Append(probed, Endpoints[i])
       IN IF r.exc /= "" THEN staff_probe(env, token, i + 1, staff_count, seen)
          ELSE IF r.status = HTTP_OK
          THEN IF total_count(r).exc /= ""
               THEN staff_probe(env, token, i + 1, staff_count, seen)
               ELSE IF total_count(r).n /= 0
               THEN [staff_count |-> total_count(r).n, probed |-> seen]
               ELSE staff_probe(env, token, i + 1, total_count(r).n, seen)
          ELSE staff_probe(env, token, i + 1, staff_count, seen)

\* The body of collect_eschool_data: the dict it returns and the staff
\* candidates it requested.
collect_eschool_run(env) ==
  LET failed(e) == [result |-> [students |-> 0, staff |-> 0, error |-> e], probed |-> <<>>]
      token == env.token.access_token
      students_response == eschool_get(env, "students", token)
      student_count == total_count(students_response)
      staff == staff_probe(env, token, 1, 0, <<>>)
  IN IF env.token.exc /= "" THEN failed(env.token.exc)
     ELSE IF json(env.token).exc /= "" THEN failed(json(env.token).exc)
     ELSE IF students_response.exc /= "" THEN failed(students_response.exc)
     ELSE IF student_count.exc /= "" THEN failed(student_count.exc)
     ELSE [result |-> [students |-> student_count.n, staff |-> staff.staff_count,
                       error |-> None],
           probed |-> staff.probed]

collect_eschool_data(env) == collect_eschool_run(env).result

\* ============================================================ Aggregation
MaxStudents == 26

\* The dicts the collectors return.
GooglePartials ==
  [staff : 0..MaxCount, students : 0..MaxStudents, chromebooks : 0..MaxCount,
   error : {None}] \cup
  [staff : {0}, students : {0}, chromebooks : {0}, error : {"FileNotFoundError", "HttpError"}]

JamfPartials ==
  [macs : 0..MaxCount, ipads : 0..MaxCount, error : {None}] \cup
  [macs : {0}, ipads : {0},
   error : NetErrors \cup {JSONDecodeError, AttributeError, "No token"}]

EschoolPartials ==
  [students : (-1)..MaxStudents, staff : ReportedCounts, error : {None}] \cup
  [students : {0}, staff : {0}, error : NetErrors \cup {JSONDecodeError, AttributeError}]

abs(x) == IF x < 0 THEN -x ELSE x

\* The f-string of the discrepancy note, by the values it interpolates.
note(diff, eschool_students, google_students) ==
  <<"Student count differs by", diff, "between eSchool", eschool_students,
    "and Google", google_students>>

total_students_nonzero(google, eschool) ==
  IF eschool.students /= 0 THEN eschool.students ELSE google.students

total_students_no_fallback(google, eschool) == eschool.students

\* students = eschool['students'] if eschool['students'] > 0 else google['students']
total_students(google, eschool) ==
  IF eschool.students > 0 THEN eschool.students ELSE google.students

total_devices_without_ipads(chromebooks, macs, ipads) == chromebooks + macs

\* total_devices = chromebooks + macs + ipads
total_devices(chromebooks, macs, ipads) == chromebooks + macs + ipads

notes_at_tolerance(google, eschool) ==
  LET diff == abs(eschool.students - google.students)
  IN IF eschool.students > 0 /\ google.students > 0 /\ diff >= Tolerance
     THEN <<note(diff, eschool.students, google.students)>>
     ELSE <<>>

\* notes = [] and the two ifs that append to it.
notes(google, eschool) ==
  LET diff == abs(eschool.students - google.students)
  IN IF eschool.students > 0 /\ google.students > 0 /\ diff > Tolerance
     THEN <<note(diff, eschool.students, google.students)>>
     ELSE <<>>

aggregate_data(google, jamf, eschool) ==
  [total_students |-> total_students(google, eschool),
   total_staff |-> google.staff,
   chromebooks |-> google.chromebooks,
   mac_computers |-> jamf.macs,
   ipads |-> jamf.ipads,
   total_devices |-> total_devices(google.chromebooks, jamf.macs, jamf.ipads),
   notes |-> notes(google, eschool)]

\* ================================================================= main
\* The names the module binds at top level (imports, constants, functions).
ModuleGlobals ==
  {"json", "os", "requests", "urllib3", "datetime", "timezone", "quote",
   "service_account", "build",
   "GOOGLE_SERVICE_ACCOUNT_FILE", "GOOGLE_ADMIN_EMAIL", "STAFF_OU", "STUDENT_OU",
   "CHROMEBOOK_OU", "JAMF_URL", "JAMF_CLIENT_ID", "JAMF_CLIENT_SECRET",
   "ESCHOOL_TOKEN_URL", "ESCHOOL_BASE_URL", "ESCHOOL_CLIENT_ID",
   "ESCHOOL_CLIENT_SECRET", "OUTPUT_DIR", "WIDGET_PATH", "DATA_PATH",
   "collect_google_data", "collect_jamf_data", "collect_eschool_data",
   "aggregate_data", "generate_widget", "main"}

NameError == "NameError"

\* A file is the sequence of records it holds; open(path, 'w') replaces it.
NoFile == <<>>

\* generate_widget looks ZoneInfo up before it builds or writes anything.
generate_widget(stats, widget_file) ==
  IF "ZoneInfo" \notin ModuleGlobals
  THEN [exc |-> NameError, widget_file |-> widget_file]
  ELSE [exc |-> "", widget_file |-> <<stats>>]

\* The backends and the clock one run of main meets.
DownGoogle ==
  [auth |-> "FileNotFoundError",
   staff |-> <<[raises |-> TRUE, items |-> <<>>]>>,
   students |-> <<[raises |-> TRUE, items |-> <<>>]>>,
   chromebooks |-> <<[raises |-> TRUE, items |-> <<>>]>>]

UpGoogle ==
  [auth |-> "",
   staff |-> <<[raises |-> FALSE, items |-> <<"active">>]>>,
   students |-> <<[raises |-> FALSE, items |-> <<"active">>]>>,
   chromebooks |-> <<[raises |-> FALSE, items |-> <<"ACTIVE">>]>>]

RunEnvs ==
  [google : {DownGoogle, UpGoogle},
   jamf : {e \in JamfEnvs : e.computers = e.mobiles /\ e.token.kind = "dict"},
   eschool : {e \in EschoolEnvs :
                /\ e.students = e.staff /\ e.staff = e.employees
                /\ e.employees = e.personnel /\ e.token.kind = "dict"
                /\ e.students.status \in {0, HTTP_OK}},
   now : 1..MaxRuns]

Failed(partial) == partial.error /= None

main(env, data_file, widget_file) ==
  IF "ny_time" \notin ModuleGlobals
  THEN [exc |-> NameError, data_file |-> data_file, widget_file |-> widget_file,
        steps |-> <<>>]
  ELSE LET google_data == collect_google_data(env.google)
           jamf_data == collect_jamf_data(env.jamf)
           eschool_data == collect_eschool_data(env.eschool)
           stats == aggregate_data(google_data, jamf_data, eschool_data)
           full_data == [timestamp |-> env.now, aggregated |-> stats,
                         raw |-> [google |-> google_data, jamf |-> jamf_data,
                                  eschool |-> eschool_data]]
           widget == generate_widget(stats, widget_file)
       IN [exc |-> widget.exc, data_file |-> <<full_data>>,
           widget_file |-> widget.widget_file,
           steps |-> <<"collect_google_data", "collect_jamf_data",
                       "collect_eschool_data", "aggregate_data", "json.dump",
                       "generate_widget">>]

\* ================================================================ state
VARIABLES
  called,      \* the function the caller has invoked, "" between calls
  args,        \* what it was invoked on
  ret,         \* what it returned (or the exception it raised)
  requests,    \* the requests it sent, in order
  data_file,   \* DATA_PATH
  widget_file, \* WIDGET_PATH
  runs         \* runs of main so far

vars == <<called, args, ret, requests, data_file, widget_file, runs>>

Init ==
  /\ called = ""
  /\ args = <<>>
  /\ ret = <<>>
  /\ requests = <<>>
  /\ data_file = NoFile
  /\ widget_file = NoFile
  /\ runs = 0

Idle == called = ""

CountUsers ==
  /\ Idle
  /\ \E listing \in ListingsOf(UserKinds) :
       LET r == count_users(listing)
       IN /\ called' = "count_users"
          /\ args' = listing
          /\ ret' = [raised |-> r.raised, count |-> r.count]
          /\ requests' = r.requests
  /\ UNCHANGED <<data_file, widget_file, runs>>

CountChromebooks ==
  /\ Idle
  /\ \E listing \in ListingsOf(DeviceKinds) :
       LET r == count_chromebooks(listing)
       IN /\ called' = "count_chromebooks"
          /\ args' = listing
          /\ ret' = [raised |-> r.raised, count |-> r.count]
          /\ requests' = r.requests
  /\ UNCHANGED <<data_file, widget_file, runs>>

CollectGoogle ==
  /\ Idle
  /\ \E env \in GoogleEnvs :
       /\ called' = "collect_google_data"
       /\ args' = env
       /\ ret' = collect_google_data(env)
  /\ requests' = <<>>
  /\ UNCHANGED <<data_file, widget_file, runs>>

CollectJamf ==
  /\ Idle
  /\ \E env \in JamfEnvs :
       /\ called' = "collect_jamf_data"
       /\ args' = env
       /\ ret' = collect_jamf_data(env)
  /\ requests' = <<>>
  /\ UNCHANGED <<data_file, widget_file, runs>>

CollectEschool ==
  /\ Idle
  /\ \E env \in EschoolEnvs :
       /\ called' = "collect_eschool_data"
       /\ args' = env
       /\ ret' = collect_eschool_run(env).result
       /\ requests' = collect_eschool_run(env).probed
  /\ UNCHANGED <<data_file, widget_file, runs>>

Aggregate ==
  /\ Idle
  /\ \E google \in GooglePartials, jamf \in JamfPartials, eschool \in EschoolPartials :
       /\ called' = "aggregate_data"
       /\ args' = [google |-> google, jamf |-> jamf, eschool |-> eschool]
       /\ ret' = aggregate_data(google, jamf, eschool)
  /\ requests' = <<>>
  /\ UNCHANGED <<data_file, widget_file, runs>>

GenerateWidget ==
  /\ Idle
  /\ \E google \in GooglePartials, jamf \in JamfPartials :
       LET stats == aggregate_data(google, jamf, [students |-> 0, staff |-> 0, error |-> None])
           w == generate_widget(stats, widget_file)
       IN /\ called' = "generate_widget"
          /\ args' = stats
          /\ ret' = [exc |-> w.exc]
          /\ widget_file' = w.widget_file
  /\ requests' = <<>>
  /\ UNCHANGED <<data_file, runs>>

Main ==
  /\ Idle
  /\ runs < MaxRuns
  /\ \E env \in RunEnvs :
       LET r == main(env, data_file, widget_file)
       IN /\ called' = "main"
          /\ args' = env
          /\ ret' = [exc |-> r.exc]
          /\ requests' = r.steps
          /\ data_file' = r.data_file
          /\ widget_file' = r.widget_file
  /\ runs' = runs + 1

\* The caller takes the returned value (or the exception).
Return ==
  /\ ~Idle
  /\ called' = ""
  /\ args' = <<>>
  /\ ret' = <<>>
  /\ requests' = <<>>
  /\ UNCHANGED <<data_file, widget_file, runs>>

Next ==
  \/ CountUsers
  \/ CountChromebooks
  \/ CollectGoogle
  \/ CollectJamf
  \/ CollectEschool
  \/ Aggregate
  \/ GenerateWidget
  \/ Main
  \/ Return

Spec == Init /\ [][Next]_vars

\* The functions called one at a time, each on every input of its domain.
NextFunctions ==
  \/ CountUsers
  \/ CountChromebooks
  \/ CollectGoogle
  \/ CollectJamf
  \/ CollectEschool
  \/ Aggregate
  \/ Return

SpecFunctions == Init /\ [][NextFunctions]_vars

\* Runs of the script, with the presentation step also called on its own.
NextRuns ==
  \/ Main
  \/ GenerateWidget
  \/ Return

SpecRuns == Init /\ [][NextRuns]_vars

\* ================================================================ claims
\* A reply that could not be used: the call raised, or the body did not parse.
Unusable(response) == response.exc /= "" \/ json(response).exc /= ""

\* Some step of the collector call at hand failed.
GoogleStepFailed ==
  \/ args.auth /= ""
  \/ count_users(args.staff).raised
  \/ count_users(args.students).raised
  \/ count_chromebooks(args.chromebooks).raised

JamfStepFailed ==
  \/ Unusable(args.token)
  \/ args.token.access_token \in {None, ""}
  \/ Unusable(args.computers)
  \/ Unusable(args.mobiles)

EschoolTokenFailed == Unusable(args.token) \/ args.token.access_token \in {None, ""}

EschoolStepFailed ==
  \/ EschoolTokenFailed
  \/ Unusable(eschool_get(args, "students", args.token.access_token))
  \/ \E i \in DOMAIN requests :
       LET r == eschool_get(args, requests[i], args.token.access_token)
       IN r.exc /= "" \/ (r.status = HTTP_OK /\ json(r).exc /= "")

Zeroed ==
  /\ ret.error \notin {None, ""}
  /\ called = "collect_google_data" => ret.staff = 0 /\ ret.students = 0 /\ ret.chromebooks = 0
  /\ called = "collect_jamf_data" => ret.macs = 0 /\ ret.ipads = 0
  /\ called = "collect_eschool_data" => ret.students = 0 /\ ret.staff = 0

\* C1: a collector one of whose steps failed (no token, a failed call, an
\* unparseable reply) returns every count 0 and a non-empty error.
C1_FailureIsZeroedWithError ==
  /\ called = "collect_google_data" /\ GoogleStepFailed => Zeroed
  /\ called = "collect_jamf_data" /\ JamfStepFailed => Zeroed
  /\ called = "collect_eschool_data" /\ EschoolStepFailed => Zeroed

AllFailed(env) ==
  /\ Failed(collect_google_data(env.google))
  /\ Failed(collect_jamf_data(env.jamf))
  /\ Failed(collect_eschool_data(env.eschool))

SomeFailed(env) ==
  \/ Failed(collect_google_data(env.google))
  \/ Failed(collect_jamf_data(env.jamf))
  \/ Failed(collect_eschool_data(env.eschool))

\* C2: a run of main in which collectors failed ends without an exception,
\* having aggregated and saved the snapshot with each source's result (its
\* error text included); with all three failed every number saved is 0.
C2_RunSurvivesCollectorFailure ==
  called = "main" /\ SomeFailed(args) =>
    /\ ret.exc = ""
    /\ Len(data_file) = 1
    /\ data_file[1].raw.google = collect_google_data(args.google)
    /\ data_file[1].raw.jamf = collect_jamf_data(args.jamf)
    /\ data_file[1].raw.eschool = collect_eschool_data(args.eschool)
    /\ AllFailed(args) =>
         /\ data_file[1].aggregated.total_students = 0
         /\ data_file[1].aggregated.total_staff = 0
         /\ data_file[1].aggregated.chromebooks = 0
         /\ data_file[1].aggregated.mac_computers = 0
         /\ data_file[1].aggregated.ipads = 0
         /\ data_file[1].aggregated.total_devices = 0

\* C3: total_devices is the sum of the Directory's chromebooks and the
\* Device-management macs and ipads, which are the three counts reported.
C3_TotalDevicesIsSum ==
  called = "aggregate_data" =>
    /\ ret.chromebooks = args.google.chromebooks
    /\ ret.mac_computers = args.jamf.macs
    /\ ret.ipads = args.jamf.ipads
    /\ ret.total_devices = ret.chromebooks + ret.mac_computers + ret.ipads

C3_Witness ==
  /\ called = "aggregate_data"
  /\ args.google.chromebooks > 0 /\ args.jamf.macs > 0 /\ args.jamf.ipads > 0
  /\ ret.total_devices = 3

\* C4: total_students is the Student-information count when that is
\* positive and the Directory count otherwise, with or without a note.
C4_StudentPrecedence ==
  called = "aggregate_data" =>
    /\ args.eschool.students > 0 => ret.total_students = args.eschool.students
    /\ ~(args.eschool.students > 0) => ret.total_students = args.google.students

C4_Witness ==
  /\ called = "aggregate_data"
  /\ ret.notes /= <<>>
  /\ args.eschool.students < args.google.students
  /\ ret.total_students = args.eschool.students

\* C5: exactly one note, naming both student counts and their absolute
\* difference, when both are positive and differ by more than 10; no note
\* otherwise (a difference of 10 gives none, one of 25 a note citing 25).
C5_NoteIffBeyondTolerance ==
  called = "aggregate_data" =>
    LET e == args.eschool.students
        g == args.google.students
        d == IF e > g THEN e - g ELSE g - e
    IN /\ (e > 0 /\ g > 0 /\ d > 10) =>
            /\ Len(ret.notes) = 1
            /\ ret.notes[1][2] = d /\ ret.notes[1][4] = e /\ ret.notes[1][6] = g
       /\ ~(e > 0 /\ g > 0 /\ d > 10) => ret.notes = <<>>
       /\ d = 10 => ret.notes = <<>>
       /\ (e > 0 /\ g > 0 /\ d = 25) => Len(ret.notes) = 1 /\ ret.notes[1][2] = 25

C5_Witness ==
  /\ called = "aggregate_data"
  /\ args.google.students - args.eschool.students = 25
  /\ args.eschool.students > 0
  /\ Len(ret.notes) = 1 /\ ret.notes[1][2] = 25

Steps ==
  <<"collect_google_data", "collect_jamf_data", "collect_eschool_data",
    "aggregate_data", "json.dump", "generate_widget">>

C7_OneRecordPerRun == Len(data_file) = runs

\* C8: every number of the aggregate is non-negative, whatever integer the
\* Student-information source reports; the Directory and Device-management
\* counts it is built from are lengths, hence non-negative.
C8_NonNegative ==
  /\ called = "collect_google_data" =>
       ret.staff >= 0 /\ ret.students >= 0 /\ ret.chromebooks >= 0
  /\ called = "collect_jamf_data" => ret.macs >= 0 /\ ret.ipads >= 0
  /\ called = "aggregate_data" =>
       /\ ret.total_students >= 0 /\ ret.total_staff >= 0
       /\ ret.chromebooks >= 0 /\ ret.mac_computers >= 0
       /\ ret.ipads >= 0 /\ ret.total_devices >= 0

C8_Witness ==
  /\ called = "aggregate_data"
  /\ args.eschool.students < 0 /\ args.eschool.staff < 0
  /\ args.google.students > 0
  /\ ret.total_students = args.google.students

\* The entities of a listing the count is about.
IsActive(fn, item) ==
  IF fn = "count_users" THEN item \in {"active", "nokey"} ELSE item = "ACTIVE"

RECURSIVE ActiveOnPages(_, _, _)
ActiveOnPages(fn, listing, n) ==
  IF n = 0 THEN 0
  ELSE ActiveOnPages(fn, listing, n - 1)
       + Cardinality({k \in DOMAIN listing[n].items : IsActive(fn, listing[n].items[k])})

\* C9: a listing that does not fail requests each page once, in order, the
\* first without a token and each further one with the token the previous
\* page carried, stops at the page that carries none, and returns the
\* number of active entities on all the pages.
C9_PaginationCountsEveryPageOnce ==
  called \in {"count_users", "count_chromebooks"} /\ ~ret.raised =>
    /\ Len(requests) = Len(args)
    /\ \A i \in DOMAIN requests : requests[i] = IF i = 1 THEN NoToken ELSE i
    /\ ret.count = ActiveOnPages(called, args, Len(args))

C9_Witness ==
  /\ called = "count_users"
  /\ ~ret.raised
  /\ Len(args) = 3
  /\ \E i \in DOMAIN args : args[i].items = <<"suspended">>
  /\ requests = <<NoToken, 2, 3>>
  /\ ret.count = 2

\* Candidate i answers the collector with a success and a non-zero count.
Accepts(i) ==
  LET r == eschool_get(args, Endpoints[i], args.token.access_token)
  IN /\ r.exc = "" /\ r.status = 200 /\ r.kind = "dict"
     /\ r.paging /\ r.total /\ r.totalCount /= 0

\* C10: the staff count is that of the first candidate, in the order staff,
\* employees, personnel, that answers with a success and a non-zero count,
\* and no candidate after it is probed; if none does, the count is 0.
C10_FirstSuccessWins ==
  called = "collect_eschool_data" /\ ret.error = None =>
    IF \E i \in 1..3 : Accepts(i)
    THEN LET first == CHOOSE i \in 1..3 : Accepts(i) /\ \A j \in 1..(i - 1) : ~Accepts(j)
         IN /\ ret.staff = args[Endpoints[first]].totalCount
            /\ requests = SubSeq(<<"staff", "employees", "personnel">>, 1, first)
    ELSE /\ ret.staff = 0
         /\ requests = <<"staff", "employees", "personnel">>

C10_Witness ==
  /\ called = "collect_eschool_data"
  /\ ret.error = None
  /\ args.staff.status = 200 /\ args.staff.total /\ args.staff.totalCount = 0
  /\ Accepts(2) /\ Accepts(3)
  /\ args.employees.totalCount /= args.personnel.totalCount
  /\ ret.staff = args.employees.totalCount
  /\ requests = <<"staff", "employees">>

====
